---------------------------- MODULE Spec2Model ----------------------------
(***************************************************************************)
(* Model of the single-instance coordination of CustomRPC Manager:         *)
(*   - SingleInstanceManager (utils/ipc.py): the lock file, the port file  *)
(*     and the advisory lock, as used by CustomRPCApp.run and              *)
(*     CustomRPCApp._quit_application (main.py);                           *)
(*   - IPCServer / IPCClient (utils/ipc.py) and the command handler of     *)
(*     main.py;                                                            *)
(*   - RPCManager (core/rpc_manager.py) with its auto-reconnect thread.    *)
(*                                                                         *)
(* SpecLock and SpecRun are the system of processes sharing the lock path. *)
(* SpecApp is the inside of one owner process: its event loop, command     *)
(* server, RPCManager and background thread.                               *)
(***************************************************************************)
EXTENDS Integers, Sequences, FiniteSets, TLC

(***************************************************************************)
(* Bounds.                                                                 *)
(***************************************************************************)
\* Processes that exist at the same time; a process that has ended can be
\* launched again.
NumProcs == 2
\* Payloads a caller can publish: 0 is the empty dict, 1..MaxPayload the others.
MaxPayload == 1
\* Application ids a caller can connect with.
MaxClientId == 2
\* Connections that can wait in the listen queue of the command server.
MaxPending == 2

Procs == 1..NumProcs
\* An inode is in use while the lock path names it or a process has it open:
\* at most one per process, plus the one at the path.
Inodes == 1..(NumProcs + 1)
\* The OS assigns any port no listener is bound to; one per process suffices.
Ports == 1..NumProcs

Payloads == 0..MaxPayload
ClientIds == 1..MaxClientId
Threads == {"fg", "bg"}

Names == {"Gaming", "Work"}
NoName == "none"

\* What a client wrote on a connection before the server read from it:
\* nothing ("empty"), bytes that are not JSON ("garbage"), JSON that is not an
\* object ("scalar"), or a command dict ("command").
Payload(kind, action, profile) ==
    [kind |-> kind, action |-> action, profile |-> profile]
NoPayload == Payload("none", "none", NoName)

\* No connection.
NoConn == [payload |-> NoPayload, responses |-> <<>>]

VARIABLES
    \* ---- the file system and the OS, shared by all processes ----
    lockPath,       \* inode the lock file path names, 0: no such file
    inodeContent,   \* inode -> text of the file: a PID, 0: empty
    flockHolder,    \* inode -> process holding the advisory lock, 0: nobody
    portFile,       \* port number written in the port file, 0: no such file
    listening,      \* process -> port its IPCServer socket listens on, 0: none
    \* ---- per process ----
    ppc,            \* process -> position in CustomRPCApp.run / _quit_application
    lock_fd,        \* process -> SingleInstanceManager.lock_fd: 0 None,
                    \*            -1 a closed file object, i > 0: open on inode i
    sent,           \* process -> sequence of commands given to send_command
    exitCode,       \* process -> value returned by run(), -1: none yet
    lastLog,        \* process -> last error message logged by run()
    cliArgs,        \* process -> the flags CLIParser.parse gave run()
    response        \* process -> the value send_command returned to run()

VARIABLES
    \* ---- RPCManager of the owner (core/rpc_manager.py) ----
    status,             \* "disconnected", "connecting", "connected", "error"
    client,             \* self.client: "none", or the Presence object by the
                        \* state of its pipe: "created", "live", "broken"
    client_id,          \* self.client_id, 0: None
    current_activity,   \* self.current_activity: -1 None, 0 the empty dict,
                        \* n > 0 a payload
    should_reconnect,   \* self._should_reconnect
    reconnect_thread,   \* self._reconnect_thread: "none" or "thread", the
                        \* Thread object; is_alive() is BgAlive
    reconnect_event,    \* self._reconnect_event is set
    \* ---- the presence service ----
    serviceUp,          \* the service accepts connections
    published,          \* the payload the service shows, -1: none
    \* ---- the threads of the owner: "fg" the Qt main thread, "bg" the
    \*      auto-reconnect thread ----
    tpc,                \* thread -> position
    stack,              \* thread -> the callers' frames, innermost first:
                        \* where to go on, and the caller's own argument
    arg,                \* thread -> argument of the method the thread is in
    ret,                \* thread -> value the last call returned: 1 True,
                        \*           0 False, -1 none
    \* ---- the command server and the event loop of the owner ----
    conn,               \* the connection accept_connection is serving:
                        \* [payload, responses], NoConn: none
    quitTimer,          \* QTimer.singleShot(100, _quit_application) is pending
    main_window,        \* self.main_window exists
    pending,            \* connections established by clients and not yet
                        \* accepted: the listen queue of the server socket
    activity            \* the activity dict the handler in progress built

rpcVars == <<status, client, client_id, current_activity, should_reconnect,
             reconnect_thread, reconnect_event, serviceUp, published>>
threadVars == <<tpc, stack, arg, ret>>

lockVars == <<lockPath, inodeContent, flockHolder, portFile, listening,
              ppc, lock_fd>>
runVars == <<sent, exitCode, lastLog, cliArgs, response>>

serverVars == <<conn, quitTimer, main_window, pending, activity>>

appVars == <<rpcVars, threadVars, serverVars>>

vars == <<lockVars, runVars, appVars>>

(***************************************************************************)
(* The file system.                                                        *)
(***************************************************************************)
\* An inode no path names and no process has open is gone.
InUse(i, path, fds) == path = i \/ \E q \in Procs : fds[q] = i

FreshInode == CHOOSE i \in Inodes :
                 /\ ~InUse(i, lockPath, lock_fd)
                 /\ \A j \in Inodes : ~InUse(j, lockPath, lock_fd) => i <= j

\* The content of the inodes once the file system has dropped the unused ones.
Reclaim(content, path, fds) ==
    [i \in Inodes |-> IF InUse(i, path, fds) THEN content[i] ELSE 0]

\* Closing a file descriptor drops the advisory lock held through it.
Unlocked(holders, p) ==
    [i \in Inodes |-> IF holders[i] = p THEN 0 ELSE holders[i]]

(***************************************************************************)
(* SingleInstanceManager.acquire_lock                                      *)
(***************************************************************************)
\* An acquire_lock that opens the file for exclusive creation instead: an
\* existing lock file makes it give up (return False).  C8 fails with it.
AcquireOpenExclusive(p) ==
    /\ UNCHANGED <<runVars, appVars>>
    /\ ppc[p] = "start"
    /\ IF lockPath = 0
         THEN /\ lockPath' = FreshInode
              /\ lock_fd' = [lock_fd EXCEPT ![p] = FreshInode]
              /\ ppc' = [ppc EXCEPT ![p] = "acq_flock"]
         ELSE /\ ppc' = [ppc EXCEPT ![p] = "not_owner"]
              /\ UNCHANGED <<lockPath, lock_fd>>
    /\ UNCHANGED <<inodeContent, flockHolder, portFile, listening>>

\* open(self.lock_file, 'w'): creates the file or truncates the existing one.
AcquireOpen(p) ==
    /\ UNCHANGED <<runVars, appVars>>
    /\ ppc[p] = "start"
    /\ LET i == IF lockPath = 0 THEN FreshInode ELSE lockPath IN
         /\ lockPath' = i
         /\ lock_fd' = [lock_fd EXCEPT ![p] = i]
         /\ inodeContent' = [inodeContent EXCEPT ![i] = 0]
    /\ ppc' = [ppc EXCEPT ![p] = "acq_flock"]
    /\ UNCHANGED <<flockHolder, portFile, listening>>

\* A flock that takes a shared lock (LOCK_SH | LOCK_NB): it is
\* granted whoever else holds the lock.
AcquireFlockShared(p) ==
    /\ UNCHANGED <<runVars, appVars>>
    /\ ppc[p] = "acq_flock"
    /\ flockHolder' = [flockHolder EXCEPT ![lock_fd[p]] = p]
    /\ ppc' = [ppc EXCEPT ![p] = "acq_write"]
    /\ UNCHANGED <<lockPath, inodeContent, portFile, listening, lock_fd>>

\* A flock without LOCK_NB: the call waits until nobody holds the lock.
AcquireFlockBlocking(p) ==
    /\ UNCHANGED <<runVars, appVars>>
    /\ ppc[p] = "acq_flock"
    /\ flockHolder[lock_fd[p]] = 0
    /\ flockHolder' = [flockHolder EXCEPT ![lock_fd[p]] = p]
    /\ ppc' = [ppc EXCEPT ![p] = "acq_write"]
    /\ UNCHANGED <<lockPath, inodeContent, portFile, listening, lock_fd>>

\* fcntl.flock(fd, LOCK_EX | LOCK_NB): taken if nobody holds it, IOError
\* (return False) otherwise.
AcquireFlock(p) ==
    /\ UNCHANGED <<runVars, appVars>>
    /\ ppc[p] = "acq_flock"
    /\ IF flockHolder[lock_fd[p]] = 0
         THEN /\ flockHolder' = [flockHolder EXCEPT ![lock_fd[p]] = p]
              /\ ppc' = [ppc EXCEPT ![p] = "acq_write"]
         ELSE /\ ppc' = [ppc EXCEPT ![p] = "not_owner"]
              /\ UNCHANGED flockHolder
    /\ UNCHANGED <<lockPath, inodeContent, portFile, listening, lock_fd>>

\* self.lock_fd.write(str(os.getpid())); flush(); return True
AcquireWrite(p) ==
    /\ UNCHANGED <<runVars, appVars>>
    /\ ppc[p] = "acq_write"
    /\ inodeContent' = [inodeContent EXCEPT ![lock_fd[p]] = p]
    /\ ppc' = [ppc EXCEPT ![p] = "start_server"]
    /\ UNCHANGED <<lockPath, flockHolder, portFile, listening, lock_fd>>

(***************************************************************************)
(* The invocation that did not get the lock: CustomRPCApp.run, forwarding. *)
(***************************************************************************)
\* The parsed flags the forwarding path reads.
Args == [profile : Names \cup {NoName}, connect : BOOLEAN,
         disconnect : BOOLEAN, quit : BOOLEAN, list_profiles : BOOLEAN]

\* No flag given.
NoArgs == [profile |-> NoName, connect |-> FALSE, disconnect |-> FALSE,
           quit |-> FALSE, list_profiles |-> FALSE]

\* CLIParser.parse: headless = any([profile and connect, disconnect, quit,
\* list_profiles])
IsHeadless(args) ==
    \/ (args.profile # NoName /\ args.connect)
    \/ args.disconnect
    \/ args.quit
    \/ args.list_profiles

\* A command is a dict; a key that is absent is "none" here.
Command(action, profile) == [action |-> action, profile |-> profile]
EmptyCommand == Command("none", NoName)

BuildCommandFromArgs(args) ==
    IF args.list_profiles THEN Command("list_profiles", NoName)
    ELSE IF args.quit THEN Command("quit", NoName)
    ELSE IF args.disconnect THEN Command("disconnect", NoName)
    ELSE IF args.connect THEN Command("connect", args.profile)
    ELSE IF args.profile # NoName THEN Command("load_profile", args.profile)
    ELSE EmptyCommand

\* SingleInstanceManager.get_port: the number in the port file, None (0) when
\* the file does not exist.
GetPort == portFile

(***************************************************************************)
(* IPCClient.send_command                                                  *)
(***************************************************************************)
\* A JSON text by the value it encodes: an object with the members it has
\* ("absent": no such member; success is the literal true or false), or a
\* value that is not an object.
JsonObject(success, error, output) ==
    [type |-> "object", success |-> success, error |-> error, output |-> output]
JsonScalar == [type |-> "scalar", success |-> "absent", error |-> "absent",
               output |-> "absent"]

\* The JSON texts a peer can answer with: the two forms _handle_ipc_command
\* produces, and objects and values of other shapes.
JsonTexts ==
    { JsonObject("true", "absent", "text"),
      JsonObject("false", "message", "text"),
      JsonObject("false", "", "text"),
      JsonObject("false", "absent", "absent"),
      JsonObject("absent", "absent", "absent"),
      JsonScalar }

\* How the exchange of send_command can go, lines 130-136: connect refused,
\* recv timing out, the peer closing without data, bytes that are not UTF-8,
\* text that is neither JSON nor OK, the two bytes OK, a JSON text.
Reply(kind, body) == [kind |-> kind, body |-> body]
Replies ==
    {Reply(k, JsonScalar) : k \in {"refused", "timeout", "closed", "bad_utf8",
                                   "not_json", "legacy_ok"}}
    \cup {Reply("json", b) : b \in JsonTexts}

\* A Python value send_command returns: a dict by its keys, or another value.
PyDict(success, error, output) ==
    [type |-> "dict", success |-> success, error |-> error, output |-> output]
PyOther == [type |-> "other", success |-> "absent", error |-> "absent",
            output |-> "absent"]
\* No value: send_command was not called.
NoResponse == [type |-> "none", success |-> "absent", error |-> "absent",
               output |-> "absent"]

\* json.loads(response_data.decode('utf-8')) for a JSON text.
JsonLoads(j) ==
    IF j.type = "object"
      THEN PyDict(CASE j.success = "true" -> "True"
                    [] j.success = "false" -> "False"
                    [] OTHER -> "absent",
                  j.error, j.output)
      ELSE PyOther

\* send_command, lines 129-150.
SendCommand(reply) ==
    CASE reply.kind = "refused" -> PyDict("False", "Connection refused", "absent")
      [] reply.kind = "timeout" -> PyDict("False", "timed out", "absent")
      [] reply.kind = "closed" -> PyDict("False", "No response", "absent")
      [] reply.kind = "bad_utf8" -> PyDict("False", "can't decode byte", "absent")
      [] reply.kind = "not_json" -> PyDict("False", "Invalid response", "absent")
      [] reply.kind = "legacy_ok" -> PyDict("True", "absent", "absent")
      [] OTHER -> JsonLoads(reply.body)

\* What run() does with `args` once acquire_lock has returned False, given the
\* port it read and how the exchange with the listener went: the commands
\* handed to send_command, the value it returned, the message logged and the
\* exit status.  response.get raises for a value that is not a dict, which
\* ends the process with a traceback.
RunNotAcquired(args, port, reply) ==
    IF ~IsHeadless(args)
      THEN [sent |-> <<>>, response |-> NoResponse, log |-> "already_running",
            code |-> 0]
    ELSE IF port = 0
      THEN [sent |-> <<>>, response |-> NoResponse,
            log |-> "cannot_communicate", code |-> 1]
    ELSE IF BuildCommandFromArgs(args) = EmptyCommand
      THEN [sent |-> <<>>, response |-> NoResponse, log |-> "failed_to_build",
            code |-> 1]
    ELSE LET returned == SendCommand(reply) IN
      IF returned.type # "dict"
        THEN [sent |-> <<BuildCommandFromArgs(args)>>, response |-> returned,
              log |-> "traceback", code |-> 1]
      ELSE IF returned.success = "True"
        THEN [sent |-> <<BuildCommandFromArgs(args)>>, response |-> returned,
              log |-> "none", code |-> 0]
        ELSE [sent |-> <<BuildCommandFromArgs(args)>>, response |-> returned,
              log |-> "failed_to_send", code |-> 1]

\* s.recv(4096), line 136.
BufSize == 4096

\* What the one recv of send_command returns when the peer has written the
\* JSON text `text` of `len` bytes and the transport delivers `first` bytes
\* of it in its first segment: at most BufSize bytes of that segment.  A
\* proper prefix of the text of a JSON object is not JSON.
Recv(text, len, first) ==
    LET got == IF first < BufSize THEN first ELSE BufSize IN
      IF got < len THEN Reply("not_json", JsonScalar)
                   ELSE Reply("json", text)

\* How the exchange goes with the command server of this program: it
\* answers with one of the two forms of _handle_ipc_command (of which the
\* client may read a part only), closes without an answer, or is too busy to
\* answer in time.
OwnerReplies ==
    { Reply("json", JsonObject("true", "absent", "text")),
      Reply("json", JsonObject("false", "message", "text")),
      Reply("not_json", JsonScalar),
      Reply("closed", JsonScalar),
      Reply("timeout", JsonScalar) }

\* How the exchange can go for the port read from the port file.  When no
\* process of this program listens on it (the port file outlives a killed
\* owner), the OS refuses the connection or has given the port to some
\* other program, which answers as it likes.
SendOutcomes(port) ==
    IF \E q \in Procs : listening[q] = port /\ port # 0
      THEN OwnerReplies ELSE Replies

\* The interpreter exits after run() has returned from lines 86-119: the lock
\* file object is closed.  That branch of run() writes neither file.
CloseAtExit(p) ==
    /\ ppc[p] = "not_owner"
    /\ ppc' = [ppc EXCEPT ![p] = "done_client"]
    /\ lock_fd' = [lock_fd EXCEPT ![p] = -1]
    /\ inodeContent' = Reclaim(inodeContent, lockPath, lock_fd')
    /\ UNCHANGED <<lockPath, flockHolder, portFile, listening>>

\* SpecLock leaves out what the invocation does with its flags.
ExitNotOwner(p) ==
    /\ CloseAtExit(p)
    /\ UNCHANGED <<runVars, appVars>>

\* run(), lines 86-119, for the flags `args`.
Forward(p, args) ==
    /\ \E reply \in SendOutcomes(GetPort) :
         LET r == RunNotAcquired(args, GetPort, reply) IN
           /\ sent' = [sent EXCEPT ![p] = r.sent]
           /\ response' = [response EXCEPT ![p] = r.response]
           /\ lastLog' = [lastLog EXCEPT ![p] = r.log]
           /\ exitCode' = [exitCode EXCEPT ![p] = r.code]
    /\ cliArgs' = [cliArgs EXCEPT ![p] = args]
    /\ UNCHANGED appVars

(***************************************************************************)
(* The owner: CustomRPCApp.run after the lock, and _quit_application.      *)
(***************************************************************************)
\* IPCServer.start: bind to port 0, the OS picks a port nobody listens on.
StartServer(p) ==
    /\ UNCHANGED <<runVars, appVars>>
    /\ ppc[p] = "start_server"
    /\ \E port \in Ports :
         /\ \A q \in Procs : listening[q] # port
         /\ listening' = [listening EXCEPT ![p] = port]
    /\ ppc' = [ppc EXCEPT ![p] = "save_port"]
    /\ UNCHANGED <<lockPath, inodeContent, flockHolder, portFile, lock_fd>>

\* SingleInstanceManager.save_port(port)
SavePort(p) ==
    /\ UNCHANGED <<runVars, appVars>>
    /\ ppc[p] = "save_port"
    /\ portFile' = listening[p]
    /\ ppc' = [ppc EXCEPT ![p] = "running"]
    /\ UNCHANGED <<lockPath, inodeContent, flockHolder, listening, lock_fd>>

\* _quit_application: the notifier is disabled and the IPC server stopped.
QuitStopServer(p) ==
    /\ UNCHANGED <<runVars, appVars>>
    /\ ppc[p] = "running"
    /\ listening' = [listening EXCEPT ![p] = 0]
    /\ ppc' = [ppc EXCEPT ![p] = "rel_unlock"]
    /\ UNCHANGED <<lockPath, inodeContent, flockHolder, portFile, lock_fd>>

(***************************************************************************)
(* SingleInstanceManager.release_lock and cleanup                          *)
(***************************************************************************)
\* fcntl.flock(fd, LOCK_UN)
ReleaseUnlock(p) ==
    /\ UNCHANGED <<runVars, appVars>>
    /\ ppc[p] = "rel_unlock"
    /\ lock_fd[p] > 0
    /\ flockHolder' = Unlocked(flockHolder, p)
    /\ ppc' = [ppc EXCEPT ![p] = "rel_close"]
    /\ UNCHANGED <<lockPath, inodeContent, portFile, listening, lock_fd>>

\* self.lock_fd.close()
ReleaseClose(p) ==
    /\ UNCHANGED <<runVars, appVars>>
    /\ ppc[p] = "rel_close"
    /\ lock_fd' = [lock_fd EXCEPT ![p] = -1]
    /\ inodeContent' = Reclaim(inodeContent, lockPath, lock_fd')
    /\ ppc' = [ppc EXCEPT ![p] = "rel_unlink"]
    /\ UNCHANGED <<lockPath, flockHolder, portFile, listening>>

\* A release_lock that leaves the lock file on disk.
ReleaseKeepsFile(p) ==
    /\ UNCHANGED <<runVars, appVars>>
    /\ ppc[p] = "rel_unlink"
    /\ ppc' = [ppc EXCEPT ![p] = "cleanup_port"]
    /\ UNCHANGED <<lockPath, inodeContent, flockHolder, portFile, listening,
                   lock_fd>>

\* self.lock_file.unlink(missing_ok=True): removes whatever file the path
\* names now.
ReleaseUnlink(p) ==
    /\ UNCHANGED <<runVars, appVars>>
    /\ ppc[p] = "rel_unlink"
    /\ lockPath' = 0
    /\ inodeContent' = Reclaim(inodeContent, 0, lock_fd)
    /\ ppc' = [ppc EXCEPT ![p] = "cleanup_port"]
    /\ UNCHANGED <<flockHolder, portFile, listening, lock_fd>>

\* cleanup: self.port_file.unlink(missing_ok=True); then app.quit() ends run().
CleanupPort(p) ==
    /\ UNCHANGED <<runVars, appVars>>
    /\ ppc[p] = "cleanup_port"
    /\ portFile' = 0
    /\ ppc' = [ppc EXCEPT ![p] = "done_owner"]
    /\ UNCHANGED <<lockPath, inodeContent, flockHolder, listening, lock_fd>>

(***************************************************************************)
(* The OS ends a process that is killed: its descriptors are closed, which *)
(* drops its advisory lock and its listening socket; its files stay.       *)
(***************************************************************************)
\* Has had acquire_lock return True and has not released the lock since.
Owner(p) == ppc[p] \in {"start_server", "save_port", "running", "rel_unlock"}

Alive(p) == ppc[p] \notin {"start", "done_client", "done_owner", "crashed",
                           "crashed_owner"}

Crash(p) ==
    /\ UNCHANGED <<runVars, appVars>>
    /\ Alive(p)
    /\ ppc' = [ppc EXCEPT ![p] = IF Owner(p) THEN "crashed_owner" ELSE "crashed"]
    /\ flockHolder' = Unlocked(flockHolder, p)
    /\ lock_fd' = [lock_fd EXCEPT ![p] = IF lock_fd[p] = 0 THEN 0 ELSE -1]
    /\ inodeContent' = Reclaim(inodeContent, lockPath, lock_fd')
    /\ listening' = [listening EXCEPT ![p] = 0]
    /\ UNCHANGED <<lockPath, portFile>>

\* The program is started again: a new process, a new CustomRPCApp object.
Launch(p) ==
    /\ ppc[p] \in {"done_client", "done_owner", "crashed", "crashed_owner"}
    /\ ppc' = [ppc EXCEPT ![p] = "start"]
    /\ lock_fd' = [lock_fd EXCEPT ![p] = 0]
    /\ sent' = [sent EXCEPT ![p] = <<>>]
    /\ exitCode' = [exitCode EXCEPT ![p] = -1]
    /\ lastLog' = [lastLog EXCEPT ![p] = "none"]
    /\ cliArgs' = [cliArgs EXCEPT ![p] = NoArgs]
    /\ response' = [response EXCEPT ![p] = NoResponse]
    /\ UNCHANGED appVars
    /\ UNCHANGED <<lockPath, inodeContent, flockHolder, portFile, listening>>

(***************************************************************************)
(* SpecLock: the processes sharing one lock path.                          *)
(***************************************************************************)
FilesInit ==
    /\ lockPath = 0
    /\ inodeContent = [i \in Inodes |-> 0]
    /\ flockHolder = [i \in Inodes |-> 0]
    /\ portFile = 0
    /\ listening = [p \in Procs |-> 0]
    /\ ppc = [p \in Procs |-> "start"]
    /\ lock_fd = [p \in Procs |-> 0]

RunInit ==
    /\ sent = [p \in Procs |-> <<>>]
    /\ exitCode = [p \in Procs |-> -1]
    /\ lastLog = [p \in Procs |-> "none"]
    /\ cliArgs = [p \in Procs |-> NoArgs]
    /\ response = [p \in Procs |-> NoResponse]

\* RPCManager.__init__, and CustomRPCApp.__init__ for what the handlers use.
AppVarsInit ==
    /\ status = "disconnected"
    /\ client = "none"
    /\ client_id = 0
    /\ current_activity = -1
    /\ should_reconnect = FALSE
    /\ reconnect_thread = "none"
    /\ reconnect_event = FALSE
    /\ published = -1
    /\ tpc = [t \in Threads |-> IF t = "fg" THEN "idle" ELSE "not_started"]
    /\ stack = [t \in Threads |-> <<>>]
    /\ arg = [t \in Threads |-> -1]
    /\ ret = [t \in Threads |-> -1]
    /\ conn = NoConn
    /\ quitTimer = FALSE
    /\ pending = 0
    /\ activity = -1

\* No process is past acquire_lock yet: no window, and the service is there.
NotStarted == serviceUp = TRUE /\ main_window = FALSE

LockInit == FilesInit /\ RunInit /\ AppVarsInit /\ NotStarted

\* The steps of the owner and of the lock: they do not depend on the flags.
OwnerStep(p) ==
    \/ AcquireOpen(p)
    \/ AcquireFlock(p)
    \/ AcquireWrite(p)
    \/ StartServer(p)
    \/ SavePort(p)
    \/ QuitStopServer(p)
    \/ ReleaseUnlock(p)
    \/ ReleaseClose(p)
    \/ ReleaseUnlink(p)
    \/ CleanupPort(p)
    \/ Crash(p)
    \/ Launch(p)

LockNext == \E p \in Procs : OwnerStep(p) \/ ExitNotOwner(p)

SpecLock == LockInit /\ [][LockNext]_vars

(***************************************************************************)
(* SpecRun: the same processes, with the flags of each invocation that     *)
(* finds the lock taken and what run() makes of them.                      *)
(***************************************************************************)
ForwardAndExit(p) ==
    /\ CloseAtExit(p)
    /\ \E args \in Args : Forward(p, args)

RunNext == \E p \in Procs : OwnerStep(p) \/ ForwardAndExit(p)

SpecRun == LockInit /\ [][RunNext]_vars

(***************************************************************************)
(* SpecAcquire: processes that only call acquire_lock.  The one that gets  *)
(* the lock goes on with its startup and keeps the lock until it is        *)
(* killed; nobody calls release_lock.                                      *)
(***************************************************************************)
AcquireNext ==
    \E p \in Procs :
        \/ AcquireOpen(p)
        \/ AcquireFlock(p)
        \/ AcquireWrite(p)
        \/ StartServer(p)
        \/ SavePort(p)
        \/ ExitNotOwner(p)
        \/ Crash(p)
        \/ Launch(p)

SpecAcquire == LockInit /\ [][AcquireNext]_vars

\* A process that is inside acquire_lock keeps running: the steps of the call
\* are taken as soon as they can be.  Nothing is assumed of the other
\* processes: the owner may hold the lock for ever.
AcquireFairness ==
    \A p \in Procs : WF_vars(AcquireFlock(p)) /\ WF_vars(AcquireWrite(p))

SpecAcquireFair == SpecAcquire /\ AcquireFairness

(***************************************************************************)
(* SpecRelease: the same processes, where an invocation whose acquire_lock *)
(* returned False may also call release_lock before it exits.              *)
(***************************************************************************)
\* release_lock, lines 212-224, called by a process whose acquire_lock
\* returned False: self.lock_fd is the file object acquire_lock opened, so the
\* body runs: flock(LOCK_UN) on its own descriptor, close(), and the unlink of
\* whatever file the path names.
ReleaseNotHeld(p) ==
    /\ UNCHANGED <<runVars, appVars>>
    /\ ppc[p] = "not_owner"
    /\ lock_fd[p] > 0
    /\ flockHolder' = Unlocked(flockHolder, p)
    /\ lock_fd' = [lock_fd EXCEPT ![p] = -1]
    /\ lockPath' = 0
    /\ inodeContent' = Reclaim(inodeContent, 0, lock_fd')
    /\ UNCHANGED <<portFile, listening, ppc>>

ReleaseNext ==
    \E p \in Procs : OwnerStep(p) \/ ExitNotOwner(p) \/ ReleaseNotHeld(p)

SpecRelease == LockInit /\ [][ReleaseNext]_vars

(***************************************************************************)
(* SpecStart: the start of the process that got the lock, with its flags:  *)
(* run(), lines 138-188.                                                   *)
(***************************************************************************)
\* Lines 140-141 for an invocation with the flags `args`: the port is saved;
\* the tray is made and line 160 reads is_headless next.
SavePortAtStartup(p) ==
    /\ ppc[p] = "save_port"
    /\ portFile' = listening[p]
    /\ \E args \in Args : cliArgs' = [cliArgs EXCEPT ![p] = args]
    /\ ppc' = [ppc EXCEPT ![p] = "cli_commands"]
    /\ UNCHANGED <<lockPath, inodeContent, flockHolder, listening, lock_fd>>
    /\ UNCHANGED <<sent, exitCode, lastLog, response, appVars>>

\* _handle_cli_commands calls _quit_application: --quit without
\* --list-profiles, which the if chain tests first.
QuitsAtStartup(args) == IsHeadless(args) /\ ~args.list_profiles /\ args.quit

\* Lines 160-188 when _quit_application is not called: the other branches of
\* _handle_cli_commands, and the window, touch neither the lock nor the
\* server; then app.exec().
EnterRunLoop(p) ==
    /\ ppc[p] = "cli_commands"
    /\ ~QuitsAtStartup(cliArgs[p])
    /\ ppc' = [ppc EXCEPT ![p] = "running"]
    /\ UNCHANGED <<lockPath, inodeContent, flockHolder, portFile, listening,
                   lock_fd>>
    /\ UNCHANGED <<runVars, appVars>>

\* Lines 160-161 and 351 with --quit: _quit_application runs before the
\* event loop does.  It stops the server, releases the lock and removes both
\* files; its app.quit() has no effect on an event loop that is not running
\* yet, so run() goes on to line 188, app.exec().
StartupQuit(p) ==
    /\ ppc[p] = "cli_commands"
    /\ QuitsAtStartup(cliArgs[p])
    /\ listening' = [listening EXCEPT ![p] = 0]
    /\ flockHolder' = Unlocked(flockHolder, p)
    /\ lock_fd' = [lock_fd EXCEPT ![p] = -1]
    /\ lockPath' = 0
    /\ inodeContent' = Reclaim(inodeContent, 0, lock_fd')
    /\ portFile' = 0
    /\ ppc' = [ppc EXCEPT ![p] = "running"]
    /\ UNCHANGED <<runVars, appVars>>

StartNext ==
    \E p \in Procs :
        \/ AcquireOpen(p)
        \/ AcquireFlock(p)
        \/ AcquireWrite(p)
        \/ StartServer(p)
        \/ SavePortAtStartup(p)
        \/ EnterRunLoop(p)
        \/ StartupQuit(p)
        \/ ExitNotOwner(p)

SpecStart == LockInit /\ [][StartNext]_vars

(***************************************************************************)
(* Calls and returns of the threads of the owner.                          *)
(***************************************************************************)
\* Thread t calls the method that starts at `target` with argument `a`, and
\* will go on at `cont` when the method returns.
CallFrom(t, target, a, cont) ==
    /\ tpc' = [tpc EXCEPT ![t] = target]
    /\ stack' = [stack EXCEPT ![t] = <<[pc |-> cont, arg |-> arg[t]]>> \o @]
    /\ arg' = [arg EXCEPT ![t] = a]
    /\ ret' = [ret EXCEPT ![t] = -1]

\* The method thread t is in returns v; the event loop drops what a slot
\* returns.
ReturnTo(t, v) ==
    /\ tpc' = [tpc EXCEPT ![t] = Head(stack[t]).pc]
    /\ stack' = [stack EXCEPT ![t] = Tail(@)]
    /\ arg' = [arg EXCEPT ![t] = Head(stack[t]).arg]
    /\ ret' = [ret EXCEPT ![t] = IF Head(stack[t]).pc = "idle" THEN -1 ELSE v]

\* Thread t goes on at `l` inside the method it is in.
Goto(t, l) ==
    /\ tpc' = [tpc EXCEPT ![t] = l]
    /\ ret' = [ret EXCEPT ![t] = -1]
    /\ UNCHANGED <<stack, arg>>

\* self._reconnect_thread.is_alive()
BgAlive == tpc["bg"] \notin {"not_started", "ended"}

(***************************************************************************)
(* RPCManager.connect(client_id), run by the main thread.                  *)
(***************************************************************************)
\* A connect without the early return of lines 48-50.
ConnectGuardAlwaysReconnects ==
    /\ tpc["fg"] = "connect_guard"
    /\ IF client # "none"
         THEN CallFrom("fg", "disconnect_flag", arg["fg"], "connect_begin")
         ELSE Goto("fg", "connect_begin")
    /\ UNCHANGED <<rpcVars, serverVars, lockVars, runVars>>

\* Lines 48-54: the early return, and the disconnect of an existing client.
ConnectGuard ==
    /\ tpc["fg"] = "connect_guard"
    /\ IF status = "connected" /\ client_id = arg["fg"]
         THEN ReturnTo("fg", 1)
         ELSE IF client # "none"
           THEN CallFrom("fg", "disconnect_flag", arg["fg"], "connect_begin")
           ELSE Goto("fg", "connect_begin")
    /\ UNCHANGED <<rpcVars, serverVars, lockVars, runVars>>

\* Lines 56-57.
ConnectBegin ==
    /\ tpc["fg"] = "connect_begin"
    /\ status' = "connecting"
    /\ client_id' = arg["fg"]
    /\ Goto("fg", "connect_new")
    /\ UNCHANGED <<client, current_activity, should_reconnect, reconnect_thread,
                   reconnect_event, serviceUp, published>>
    /\ UNCHANGED <<serverVars, lockVars, runVars>>

\* Line 60, self.client = Presence(client_id).  With the service away the
\* constructor of the library either raises (it looks for the pipe), leaving
\* self.client as it was, or builds an object whose connect() will raise.
ConnectNew ==
    /\ tpc["fg"] = "connect_new"
    /\ \/ /\ client' = "created"
          /\ Goto("fg", "connect_handshake")
          /\ UNCHANGED status
       \/ /\ ~serviceUp
          /\ status' = "error"
          /\ ReturnTo("fg", 0)
          /\ UNCHANGED client
    /\ UNCHANGED <<client_id, current_activity, should_reconnect,
                   reconnect_thread, reconnect_event, serviceUp, published>>
    /\ UNCHANGED <<serverVars, lockVars, runVars>>

\* Lines 61-62, self.client.connect(), and the except clauses 74-85.
ConnectHandshake ==
    /\ tpc["fg"] = "connect_handshake"
    /\ IF serviceUp
         THEN /\ client' = "live"
              /\ status' = "connected"
              /\ Goto("fg", "connect_flag")
         ELSE /\ status' = "error"
              /\ ReturnTo("fg", 0)
              /\ UNCHANGED client
    /\ UNCHANGED <<client_id, current_activity, should_reconnect,
                   reconnect_thread, reconnect_event, serviceUp, published>>
    /\ UNCHANGED <<serverVars, lockVars, runVars>>

\* Line 66.
ConnectFlag ==
    /\ tpc["fg"] = "connect_flag"
    /\ should_reconnect' = TRUE
    /\ Goto("fg", "connect_thread")
    /\ UNCHANGED <<status, client, client_id, current_activity,
                   reconnect_thread, reconnect_event, serviceUp, published>>
    /\ UNCHANGED <<serverVars, lockVars, runVars>>

\* Lines 67-72: a thread is started unless one is alive; return True.
ConnectThread ==
    /\ tpc["fg"] = "connect_thread"
    /\ IF reconnect_thread = "none" \/ ~BgAlive
         THEN /\ reconnect_event' = FALSE
              /\ reconnect_thread' = "thread"
              /\ tpc' = [tpc EXCEPT !["fg"] = Head(stack["fg"]).pc,
                                    !["bg"] = "loop_test"]
              /\ stack' = [stack EXCEPT !["fg"] = Tail(@), !["bg"] = <<>>]
              /\ arg' = [arg EXCEPT !["fg"] = Head(stack["fg"]).arg,
                                    !["bg"] = -1]
              /\ ret' = [ret EXCEPT !["fg"] = 1, !["bg"] = -1]
         ELSE /\ ReturnTo("fg", 1)
              /\ UNCHANGED <<reconnect_event, reconnect_thread>>
    /\ UNCHANGED <<status, client, client_id, current_activity,
                   should_reconnect, serviceUp, published>>
    /\ UNCHANGED <<serverVars, lockVars, runVars>>

(***************************************************************************)
(* RPCManager.disconnect(), run by the main thread.                        *)
(***************************************************************************)
\* Line 89.
DisconnectFlag ==
    /\ tpc["fg"] = "disconnect_flag"
    /\ should_reconnect' = FALSE
    /\ Goto("fg", "disconnect_close")
    /\ UNCHANGED <<status, client, client_id, current_activity,
                   reconnect_thread, reconnect_event, serviceUp, published>>
    /\ UNCHANGED <<serverVars, lockVars, runVars>>

\* Lines 91-100: only with a client, close it and reset the fields.  The
\* service drops what a client published when its pipe closes.
DisconnectClose ==
    /\ tpc["fg"] = "disconnect_close"
    /\ IF client # "none"
         THEN /\ published' = IF client = "live" THEN -1 ELSE published
              /\ client' = "none"
              /\ status' = "disconnected"
              /\ current_activity' = -1
         ELSE UNCHANGED <<published, client, status, current_activity>>
    /\ Goto("fg", "disconnect_event")
    /\ UNCHANGED <<client_id, should_reconnect, reconnect_thread,
                   reconnect_event, serviceUp>>
    /\ UNCHANGED <<serverVars, lockVars, runVars>>

\* A disconnect that returns without setting the event.
DisconnectWithoutEvent ==
    /\ tpc["fg"] = "disconnect_event"
    /\ ReturnTo("fg", -1)
    /\ UNCHANGED <<rpcVars, serverVars, lockVars, runVars>>

\* Lines 103-104, and the return.
DisconnectEvent ==
    /\ tpc["fg"] = "disconnect_event"
    /\ reconnect_event' = IF reconnect_thread # "none" THEN TRUE
                                                       ELSE reconnect_event
    /\ ReturnTo("fg", -1)
    /\ UNCHANGED <<status, client, client_id, current_activity,
                   should_reconnect, reconnect_thread, serviceUp, published>>
    /\ UNCHANGED <<serverVars, lockVars, runVars>>

(***************************************************************************)
(* RPCManager.update_activity(activity), run by either thread.             *)
(***************************************************************************)
\* A guard that looks at the client only and not at the status.
UpdateGuardIgnoresStatus(t) ==
    /\ tpc[t] = "update_guard"
    /\ IF client = "none"
         THEN ReturnTo(t, 0)
         ELSE Goto(t, "update_send")
    /\ UNCHANGED <<rpcVars, serverVars, lockVars, runVars>>

\* Lines 116-118.
UpdateGuard(t) ==
    /\ tpc[t] = "update_guard"
    /\ IF client = "none" \/ status # "connected"
         THEN ReturnTo(t, 0)
         ELSE Goto(t, "update_send")
    /\ UNCHANGED <<rpcVars, serverVars, lockVars, runVars>>

\* Lines 122-126 and the except clause 131-133: activity.items() raises for
\* None, self.client.update raises unless the client's pipe is connected.
UpdateSend(t) ==
    /\ tpc[t] = "update_send"
    /\ IF client = "live" /\ arg[t] # -1
         THEN /\ published' = arg[t]
              /\ Goto(t, "update_store")
         ELSE /\ ReturnTo(t, 0)
              /\ UNCHANGED published
    /\ UNCHANGED <<status, client, client_id, current_activity,
                   should_reconnect, reconnect_thread, reconnect_event,
                   serviceUp>>
    /\ UNCHANGED <<serverVars, lockVars, runVars>>

\* Lines 127-129.
UpdateStore(t) ==
    /\ tpc[t] = "update_store"
    /\ current_activity' = arg[t]
    /\ ReturnTo(t, 1)
    /\ UNCHANGED <<status, client, client_id, should_reconnect,
                   reconnect_thread, reconnect_event, serviceUp, published>>
    /\ UNCHANGED <<serverVars, lockVars, runVars>>

(***************************************************************************)
(* RPCManager._auto_reconnect_loop, the background thread.  update_activity *)
(* raises nothing, so the except clause of lines 164-175 never runs.        *)
(***************************************************************************)
\* Line 157: while self._should_reconnect.
LoopTest ==
    /\ tpc["bg"] = "loop_test"
    /\ IF should_reconnect THEN Goto("bg", "loop_check")
                            ELSE Goto("bg", "ended")
    /\ UNCHANGED <<rpcVars, serverVars, lockVars, runVars>>

\* Line 159.
LoopCheck ==
    /\ tpc["bg"] = "loop_check"
    /\ IF status = "connected" /\ client # "none"
         THEN Goto("bg", "loop_probe")
         ELSE Goto("bg", "loop_wait")
    /\ UNCHANGED <<rpcVars, serverVars, lockVars, runVars>>

\* Line 162: an empty dict and None are both false.
LoopProbe ==
    /\ tpc["bg"] = "loop_probe"
    /\ IF current_activity > 0
         THEN Goto("bg", "loop_call")
         ELSE Goto("bg", "loop_wait")
    /\ UNCHANGED <<rpcVars, serverVars, lockVars, runVars>>

\* Line 163: self.current_activity is read again for the argument.
LoopCall ==
    /\ tpc["bg"] = "loop_call"
    /\ CallFrom("bg", "update_guard", current_activity, "loop_wait")
    /\ UNCHANGED <<rpcVars, serverVars, lockVars, runVars>>

\* Lines 178-180: the wait ends at once if the event is set, or after the
\* timeout.
LoopWait ==
    /\ tpc["bg"] = "loop_wait"
    /\ IF reconnect_event
         THEN /\ reconnect_thread' = "none"
              /\ Goto("bg", "ended")
         ELSE /\ Goto("bg", "loop_test")
              /\ UNCHANGED reconnect_thread
    /\ UNCHANGED <<status, client, client_id, current_activity,
                   should_reconnect, reconnect_event, serviceUp, published>>
    /\ UNCHANGED <<serverVars, lockVars, runVars>>

(***************************************************************************)
(* The presence service (the Discord client) goes away and comes back.     *)
(***************************************************************************)
\* The pipe of a connected client breaks; what it published is gone.
ServiceDown ==
    /\ serviceUp
    /\ serviceUp' = FALSE
    /\ client' = IF client = "live" THEN "broken" ELSE client
    /\ published' = -1
    /\ UNCHANGED <<status, client_id, current_activity, should_reconnect,
                   reconnect_thread, reconnect_event>>
    /\ UNCHANGED <<threadVars, serverVars, lockVars, runVars>>

ServiceUp ==
    /\ ~serviceUp
    /\ serviceUp' = TRUE
    /\ UNCHANGED <<status, client, client_id, current_activity,
                   should_reconnect, reconnect_thread, reconnect_event,
                   published>>
    /\ UNCHANGED <<threadVars, serverVars, lockVars, runVars>>

(***************************************************************************)
(* The owner's event loop: the handlers of main.py, run by the main thread *)
(* one at a time.  The owner is process Me.                                *)
(***************************************************************************)
Me == 1

\* ProfileManager.load_profile: the stored profiles are those of Names; any
\* other name gives None.
ProfileExists(name) == name \in Names
\* profile.get('app_id')
ProfileAppId(name) == IF name = "Gaming" THEN 1 ELSE MaxClientId
\* _build_activity(profile): the profile "Work" has no field set.
ProfileActivity(name) == IF name = "Gaming" THEN 1 ELSE 0

\* The main thread is in app.exec() and runs no handler.
FgIdle == tpc["fg"] = "idle" /\ ppc[Me] = "running"

\* tray.connect_requested / main_window.connect_requested -> _handle_connect
GuiConnect ==
    /\ FgIdle
    /\ CallFrom("fg", "hc_begin", -1, "idle")
    /\ UNCHANGED <<rpcVars, serverVars, lockVars, runVars>>

\* _handle_connect, lines 221-232: the form of the main window gives the
\* application id (0: empty) and the fields of the activity.
HandleConnectBegin ==
    /\ tpc["fg"] = "hc_begin"
    /\ IF ~main_window
         THEN ReturnTo("fg", -1) /\ UNCHANGED activity
         ELSE \E app_id \in 0..MaxClientId, data \in Payloads :
                IF app_id = 0
                  THEN ReturnTo("fg", -1) /\ UNCHANGED activity
                  ELSE /\ activity' = data
                       /\ CallFrom("fg", "connect_guard", app_id, "hc_connected")
    /\ UNCHANGED <<conn, quitTimer, main_window, pending>>
    /\ UNCHANGED <<rpcVars, lockVars, runVars>>

\* _handle_connect, lines 232-244: publish if connect returned True.
HandleConnectResult ==
    /\ tpc["fg"] = "hc_connected"
    /\ IF ret["fg"] = 1
         THEN CallFrom("fg", "update_guard", activity, "hc_end")
         ELSE Goto("fg", "hc_end")
    /\ UNCHANGED <<rpcVars, serverVars, lockVars, runVars>>

HandleConnectEnd ==
    /\ tpc["fg"] = "hc_end"
    /\ activity' = -1
    /\ ReturnTo("fg", -1)
    /\ UNCHANGED <<conn, quitTimer, main_window, pending>>
    /\ UNCHANGED <<rpcVars, lockVars, runVars>>

\* tray.disconnect_requested / main_window.disconnect_requested ->
\* _handle_disconnect, which calls self.rpc.disconnect().
GuiDisconnect ==
    /\ FgIdle
    /\ CallFrom("fg", "disconnect_flag", -1, "idle")
    /\ UNCHANGED <<rpcVars, serverVars, lockVars, runVars>>

\* tray.show_window -> _show_main_window creates the window if there is none.
GuiShowWindow ==
    /\ FgIdle
    /\ ~main_window
    /\ main_window' = TRUE
    /\ UNCHANGED <<conn, quitTimer, pending, activity>>
    /\ UNCHANGED <<rpcVars, threadVars, lockVars, runVars>>

(***************************************************************************)
(* IPCServer.accept_connection with CustomRPCApp._handle_ipc_command as    *)
(* its response_callback.                                                  *)
(***************************************************************************)
\* The actions _process_ipc_command has a branch for.
KnownActions == {"connect", "disconnect", "quit", "list_profiles",
                 "load_profile"}

\* What a client can have written: any process can connect to the port.
ClientPayloads ==
    {Payload(k, "none", NoName) : k \in {"empty", "garbage", "scalar"}}
    \cup {Payload("command", a, NoName) : a \in KnownActions \cup {"bogus", "none"}}
    \cup {Payload("command", a, n) : a \in {"connect", "load_profile"},
                                     n \in Names \cup {"Ghost"}}

\* The client has connected and has neither written nor closed yet.
Silent == Payload("silent", "none", NoName)

\* A failure response that leaves the error out.
ResponseWithoutError(success, output) ==
    [success |-> success, error |-> "absent", output |-> output]

\* The dict _handle_ipc_command returns, lines 407-418: a failure carries
\* str(e), and the one exception the handler meets here is the AttributeError
\* of command.get on a value that is not a dict.
Response(success, output) ==
    [success |-> success,
     error |-> IF success THEN "absent" ELSE "object has no attribute 'get'",
     output |-> output]

\* json.dumps(response), line 82.
JsonDumps(r) ==
    JsonObject(IF r.success THEN "true" ELSE "false", r.error, r.output)

\* What the client of the connection reads once the server has closed it:
\* the JSON text written, or the end of the stream.
WireReply(c) ==
    IF c.responses = <<>> THEN Reply("closed", JsonScalar)
                          ELSE Reply("json", JsonDumps(c.responses[1]))

\* Lines 81-83: the response the callback returned is written to the
\* connection.
Respond(success, output) ==
    /\ conn' = [conn EXCEPT !.responses = Append(@, Response(success, output))]
    /\ activity' = -1
    /\ Goto("fg", "close")

\* A client connects to the port of the owner: the OS completes the
\* connection and queues it on the listening socket (listen(1), line 52),
\* whatever the owner's main thread is doing.
ClientConnects ==
    /\ ppc[Me] = "running"
    /\ listening[Me] # 0
    /\ pending < MaxPending
    /\ pending' = pending + 1
    /\ UNCHANGED <<conn, quitTimer, main_window, activity>>
    /\ UNCHANGED <<rpcVars, threadVars, lockVars, runVars>>

\* An accept that does not wait for the slot in progress to return.
AcceptWhileBusy ==
    /\ ppc[Me] = "running"
    /\ tpc["fg"] \notin {"recv", "exited"}
    /\ listening[Me] # 0
    /\ pending > 0
    /\ pending' = pending - 1
    /\ \E pl \in ClientPayloads \cup {Silent} :
         conn' = [payload |-> pl, responses |-> <<>>]
    /\ Goto("fg", "recv")
    /\ UNCHANGED <<quitTimer, main_window, activity>>
    /\ UNCHANGED <<rpcVars, lockVars, runVars>>

\* The socket notifier fires for a pending connection, _check_ipc_commands:
\* self.socket.accept() and the call of conn.recv(4096), lines 72-74.  The
\* accepted socket is a blocking one with no timeout (only the listening
\* socket was made non-blocking, line 53): recv returns what the client wrote
\* or its end of stream, and waits as long as there is neither.
Accept ==
    /\ FgIdle
    /\ listening[Me] # 0
    /\ pending > 0
    /\ pending' = pending - 1
    /\ \E pl \in ClientPayloads \cup {Silent} :
         conn' = [payload |-> pl, responses |-> <<>>]
    /\ Goto("fg", "recv")
    /\ UNCHANGED <<quitTimer, main_window, activity>>
    /\ UNCHANGED <<rpcVars, lockVars, runVars>>

\* The client of the connection recv is waiting on writes at last, or closes.
ClientWrites ==
    /\ tpc["fg"] = "recv"
    /\ conn.payload = Silent
    /\ \E pl \in ClientPayloads : conn' = [conn EXCEPT !.payload = pl]
    /\ UNCHANGED <<quitTimer, main_window, pending, activity>>
    /\ UNCHANGED <<rpcVars, threadVars, lockVars, runVars>>

\* Lines 75-76 and 92-94: `if data:` is false for an empty payload, and
\* json.loads raises for bytes that are not JSON; either way control leaves
\* the `with conn` block with nothing written.
SkipResponse ==
    /\ tpc["fg"] = "recv"
    /\ conn.payload.kind \in {"empty", "garbage"}
    /\ Goto("fg", "close")
    /\ UNCHANGED <<rpcVars, serverVars, lockVars, runVars>>

\* The end of the `with conn` block closes the connection, and
\* accept_connection returns to the event loop.
CloseConnection ==
    /\ tpc["fg"] = "close"
    /\ conn' = NoConn
    /\ Goto("fg", "idle")
    /\ UNCHANGED <<quitTimer, main_window, pending, activity>>
    /\ UNCHANGED <<rpcVars, lockVars, runVars>>

\* _handle_ipc_command, lines 411-418: command.get raises for JSON that is
\* not an object.
HandleNotADict ==
    /\ tpc["fg"] = "recv"
    /\ conn.payload.kind = "scalar"
    /\ Respond(FALSE, "")
    /\ UNCHANGED <<quitTimer, main_window, pending>>
    /\ UNCHANGED <<rpcVars, lockVars, runVars>>

\* The place of a profile name in lexicographic order.
NameOrder == [n \in Names |-> IF n = "Gaming" THEN 1 ELSE 2]

\* ProfileManager.list_profiles: sorted(profiles), the stored names in
\* lexicographic order.
ListProfiles ==
    CHOOSE names \in [1..Cardinality(Names) -> Names] :
        \A i, j \in 1..Cardinality(Names) :
            i < j => NameOrder[names[i]] < NameOrder[names[j]]

\* The lines execute_list_profiles prints for profiles[i..], lines 46-47:
\* print(f"  {i}. {profile}").
RECURSIVE NumberedLines(_, _)
NumberedLines(profiles, i) ==
    IF i > Len(profiles) THEN ""
    ELSE "  " \o ToString(i) \o ". " \o profiles[i] \o "\n"
           \o NumberedLines(profiles, i + 1)

\* What CLIController.execute_list_profiles prints, lines 39-47.
ExecuteListProfiles(profiles) ==
    IF profiles = <<>> THEN "No profiles found.\n"
    ELSE "Available profiles:\n" \o NumberedLines(profiles, 1)

\* The output of the branches of _process_ipc_command that do not call the
\* RPCManager (with what they print), lines 435-441 and 463-486.
SimpleOutput(cmd) ==
    CASE cmd.action = "list_profiles" -> ExecuteListProfiles(ListProfiles)
      [] cmd.action = "quit" -> "quitting"
      [] cmd.action = "connect" /\ cmd.profile # NoName -> "profile_not_found"
      [] cmd.action = "connect" -> "cannot_connect_headless"
      [] cmd.action = "load_profile" /\ cmd.profile = NoName -> ""
      [] cmd.action = "load_profile" /\ ProfileExists(cmd.profile) -> "loaded"
      [] cmd.action = "load_profile" -> "failed_to_load"
      [] OTHER -> ""

\* The command takes a branch that calls the RPCManager.
CallsRpc(cmd) ==
    \/ cmd.action = "disconnect"
    \/ cmd.action = "connect" /\ cmd.profile # NoName /\ ProfileExists(cmd.profile)
    \/ cmd.action = "connect" /\ cmd.profile = NoName /\ main_window

\* A handler that stops the command server itself for a quit command,
\* instead of leaving it to the timer.
ProcessSimpleQuitsAtOnce ==
    /\ tpc["fg"] = "recv"
    /\ conn.payload.kind = "command"
    /\ ~CallsRpc(conn.payload)
    /\ Respond(TRUE, SimpleOutput(conn.payload))
    /\ listening' = IF conn.payload.action = "quit"
                       THEN [listening EXCEPT ![Me] = 0] ELSE listening
    /\ UNCHANGED <<quitTimer, main_window, pending>>
    /\ UNCHANGED <<lockPath, inodeContent, flockHolder, portFile, ppc, lock_fd>>
    /\ UNCHANGED <<rpcVars, runVars>>

\* _handle_ipc_command around _process_ipc_command for those branches: the
\* response is success True with the output, whatever the action.
ProcessSimple ==
    /\ tpc["fg"] = "recv"
    /\ conn.payload.kind = "command"
    /\ ~CallsRpc(conn.payload)
    /\ Respond(TRUE, SimpleOutput(conn.payload))
    /\ quitTimer' = (quitTimer \/ conn.payload.action = "quit")
    /\ UNCHANGED <<main_window, pending>>
    /\ UNCHANGED <<rpcVars, lockVars, runVars>>

\* _process_ipc_command, lines 442-443: _handle_disconnect.
ProcessDisconnect ==
    /\ tpc["fg"] = "recv"
    /\ conn.payload.kind = "command"
    /\ conn.payload.action = "disconnect"
    /\ CallFrom("fg", "disconnect_flag", -1, "ipc_disconnected")
    /\ UNCHANGED <<rpcVars, serverVars, lockVars, runVars>>

\* Lines 444-445 and the response.
ProcessDisconnected ==
    /\ tpc["fg"] = "ipc_disconnected"
    /\ Respond(TRUE, "disconnected")
    /\ UNCHANGED <<quitTimer, main_window, pending>>
    /\ UNCHANGED <<rpcVars, lockVars, runVars>>

\* Lines 447-453: connect with a stored profile.
ProcessConnectProfile ==
    /\ tpc["fg"] = "recv"
    /\ conn.payload.kind = "command"
    /\ conn.payload.action = "connect"
    /\ conn.payload.profile # NoName
    /\ ProfileExists(conn.payload.profile)
    /\ activity' = ProfileActivity(conn.payload.profile)
    /\ CallFrom("fg", "connect_guard", ProfileAppId(conn.payload.profile),
                "ipc_profile_connected")
    /\ UNCHANGED <<conn, quitTimer, main_window, pending>>
    /\ UNCHANGED <<rpcVars, lockVars, runVars>>

\* Lines 453-462: publish if connect returned True, else the failure output.
ProcessConnectResult ==
    /\ tpc["fg"] = "ipc_profile_connected"
    /\ IF ret["fg"] = 1
         THEN /\ CallFrom("fg", "update_guard", activity, "ipc_profile_published")
              /\ UNCHANGED serverVars
         ELSE /\ Respond(TRUE, "failed_to_connect")
              /\ UNCHANGED <<quitTimer, main_window, pending>>
    /\ UNCHANGED <<rpcVars, lockVars, runVars>>

\* Lines 456-460 and the response: the result of update_activity is not read.
ProcessPublished ==
    /\ tpc["fg"] = "ipc_profile_published"
    /\ Respond(TRUE, "connected_with_profile")
    /\ UNCHANGED <<quitTimer, main_window, pending>>
    /\ UNCHANGED <<rpcVars, lockVars, runVars>>

\* Lines 467-468: connect without a profile, through the form of the window.
ProcessConnectForm ==
    /\ tpc["fg"] = "recv"
    /\ conn.payload.kind = "command"
    /\ conn.payload.action = "connect"
    /\ conn.payload.profile = NoName
    /\ main_window
    /\ CallFrom("fg", "hc_begin", -1, "ipc_form_connected")
    /\ UNCHANGED <<rpcVars, serverVars, lockVars, runVars>>

\* Line 469 and the response: the output does not depend on what
\* _handle_connect did.
ProcessFormConnected ==
    /\ tpc["fg"] = "ipc_form_connected"
    /\ Respond(TRUE, "connected")
    /\ UNCHANGED <<quitTimer, main_window, pending>>
    /\ UNCHANGED <<rpcVars, lockVars, runVars>>

(***************************************************************************)
(* CustomRPCApp._quit_application, from the timer of the quit command, the *)
(* tray or the closed window.                                              *)
(***************************************************************************)
\* Lines 494-499: the notifier is disabled and the server socket closed.
QuitBegin ==
    /\ FgIdle
    /\ listening' = [listening EXCEPT ![Me] = 0]
    /\ quitTimer' = FALSE
    /\ pending' = 0
    /\ Goto("fg", "quit_rpc")
    /\ UNCHANGED <<lockPath, inodeContent, flockHolder, portFile, ppc, lock_fd>>
    /\ UNCHANGED <<conn, main_window, activity>>
    /\ UNCHANGED <<rpcVars, runVars>>

\* Lines 502-503: if self.rpc.is_connected(): self.rpc.disconnect()
QuitDisconnect ==
    /\ tpc["fg"] = "quit_rpc"
    /\ IF status = "connected"
         THEN CallFrom("fg", "disconnect_flag", -1, "quit_cleanup")
         ELSE Goto("fg", "quit_cleanup")
    /\ UNCHANGED <<rpcVars, serverVars, lockVars, runVars>>

\* Lines 506-510: instance_manager.cleanup() (release_lock and the unlink of
\* the port file) and app.quit(); run() returns and the process ends, with
\* its daemon thread and its pipe to the service.
QuitCleanup ==
    /\ tpc["fg"] = "quit_cleanup"
    /\ flockHolder' = Unlocked(flockHolder, Me)
    /\ lock_fd' = [lock_fd EXCEPT ![Me] = IF @ > 0 THEN -1 ELSE @]
    /\ lockPath' = IF lock_fd[Me] > 0 THEN 0 ELSE lockPath
    /\ inodeContent' = Reclaim(inodeContent, lockPath', lock_fd')
    /\ portFile' = 0
    /\ ppc' = [ppc EXCEPT ![Me] = "done_owner"]
    /\ tpc' = [t \in Threads |-> IF t = "fg" THEN "exited"
                                 ELSE IF BgAlive THEN "ended" ELSE tpc[t]]
    /\ published' = IF client = "live" THEN -1 ELSE published
    /\ UNCHANGED <<stack, arg, ret, listening>>
    /\ UNCHANGED <<status, client, client_id, current_activity,
                   should_reconnect, reconnect_thread, reconnect_event,
                   serviceUp>>
    /\ UNCHANGED <<serverVars, runVars>>

(***************************************************************************)
(* SpecApp: the owner process from the moment run() enters app.exec().     *)
(***************************************************************************)
\* The files and the process table once process Me, started alone, has taken
\* the lock, started its server and saved its port (run(), lines 82-141).
OwnerRunning ==
    /\ lockPath = 1
    /\ inodeContent = [i \in Inodes |-> IF i = 1 THEN Me ELSE 0]
    /\ flockHolder = [i \in Inodes |-> IF i = 1 THEN Me ELSE 0]
    /\ portFile = 1
    /\ listening = [p \in Procs |-> IF p = Me THEN 1 ELSE 0]
    /\ ppc = [p \in Procs |-> IF p = Me THEN "running" ELSE "start"]
    /\ lock_fd = [p \in Procs |-> IF p = Me THEN 1 ELSE 0]

\* run(), lines 162-167: the window exists unless the owner was started
\* headless; the service may be there or not.
Started == serviceUp \in BOOLEAN /\ main_window \in BOOLEAN

AppInit == OwnerRunning /\ RunInit /\ AppVarsInit /\ Started

AppNext ==
    \/ GuiConnect
    \/ HandleConnectBegin
    \/ HandleConnectResult
    \/ HandleConnectEnd
    \/ GuiDisconnect
    \/ GuiShowWindow
    \/ ClientConnects
    \/ Accept
    \/ ClientWrites
    \/ SkipResponse
    \/ CloseConnection
    \/ HandleNotADict
    \/ ProcessSimple
    \/ ProcessDisconnect
    \/ ProcessDisconnected
    \/ ProcessConnectProfile
    \/ ProcessConnectResult
    \/ ProcessPublished
    \/ ProcessConnectForm
    \/ ProcessFormConnected
    \/ QuitBegin
    \/ QuitDisconnect
    \/ QuitCleanup
    \/ ConnectGuard
    \/ ConnectBegin
    \/ ConnectNew
    \/ ConnectHandshake
    \/ ConnectFlag
    \/ ConnectThread
    \/ DisconnectFlag
    \/ DisconnectClose
    \/ DisconnectEvent
    \/ \E t \in Threads : UpdateGuard(t) \/ UpdateSend(t) \/ UpdateStore(t)
    \/ LoopTest
    \/ LoopCheck
    \/ LoopProbe
    \/ LoopCall
    \/ LoopWait
    \/ ServiceDown
    \/ ServiceUp

SpecApp == AppInit /\ [][AppNext]_vars

(***************************************************************************)
(* SpecGui: the owner used through its tray and window only, no client of  *)
(* the command server; the loop thread is scheduled fairly.                *)
(***************************************************************************)
\* The steps of the liveness loop thread.
LoopStep ==
    \/ LoopTest
    \/ LoopCheck
    \/ LoopProbe
    \/ LoopCall
    \/ LoopWait
    \/ UpdateGuard("bg")
    \/ UpdateSend("bg")
    \/ UpdateStore("bg")

GuiNext ==
    \/ GuiConnect
    \/ HandleConnectBegin
    \/ HandleConnectResult
    \/ HandleConnectEnd
    \/ GuiDisconnect
    \/ GuiShowWindow
    \/ QuitBegin
    \/ QuitDisconnect
    \/ QuitCleanup
    \/ ConnectGuard
    \/ ConnectBegin
    \/ ConnectNew
    \/ ConnectHandshake
    \/ ConnectFlag
    \/ ConnectThread
    \/ DisconnectFlag
    \/ DisconnectClose
    \/ DisconnectEvent
    \/ UpdateGuard("fg")
    \/ UpdateSend("fg")
    \/ UpdateStore("fg")
    \/ LoopStep
    \/ ServiceDown
    \/ ServiceUp

SpecGui == AppInit /\ [][GuiNext]_vars

\* The OS schedules the loop thread: a thread that can run does run.
SpecGuiFair == SpecGui /\ WF_vars(LoopStep)

\* SingleInstanceManager.get_pid: the PID in the lock file, None (0) when the
\* file is missing or empty.
GetPid == IF lockPath = 0 THEN 0 ELSE inodeContent[lockPath]

(***************************************************************************)
(* Claims about the lock, checked under SpecLock.                          *)
(***************************************************************************)
\* C1: at most one process is an owner (acquire_lock returned True and it has
\* not released since), in every reachable state.
C1_AtMostOneOwner == Cardinality({p \in Procs : Owner(p)}) <= 1

\* C7 (under SpecRun): an invocation whose acquire_lock returned False and
\* that has exited either forwarded exactly one command, or reported that the
\* running instance cannot be reached and exited with a non-zero status.
C7_ForwardsOrFails ==
    \A p \in Procs :
        (ppc[p] = "done_client" /\ exitCode[p] # -1) =>
            \/ Len(sent[p]) = 1
            \/ (exitCode[p] # 0 /\ lastLog[p] = "cannot_communicate")

\* The step in which acquire_lock of q returns False.
AcquireReturnsFalse(q) ==
    ppc[q] \in {"start", "acq_flock"} /\ ppc'[q] = "not_owner"

\* The process holds the advisory lock on some file.
HoldsLock(r) == \E i \in Inodes : flockHolder[i] = r

\* C8: once an owner has crashed (leaving its lock and port files behind),
\* acquire_lock of another process returns False only if a live process holds
\* the lock at that moment: the record of the dead owner never makes
\* acquire_lock fail, so the first acquire_lock after the crash returns True.
C8_StaleLockRecovered ==
    [][\A q \in Procs :
          (AcquireReturnsFalse(q) /\ \E p \in Procs : ppc[p] = "crashed_owner")
              => \E r \in Procs \ {q} : Alive(r) /\ HoldsLock(r)]_vars

\* C8 witness: process 1 crashed as the owner after announcing its port, its
\* lock file and port file are still there, and process 2, the only other
\* process started, has had acquire_lock return True.
C8_Witness ==
    /\ ppc[1] = "crashed_owner"
    /\ ppc[2] = "start_server"
    /\ \A p \in Procs \ {1, 2} : ppc[p] = "start"
    /\ lockPath # 0
    /\ portFile # 0

\* C9: while a process owns the lock, get_pid returns its PID.
C9_LockFileNamesOwner == \A p \in Procs : Owner(p) => GetPid = p

\* C10: whenever an owner is in its run loop (it has saved its port and has
\* not begun to quit) and the port file holds a port number, the command
\* server of a process owning the lock listens on that port.
C10_PortFileIsOwnersPort ==
    ((\E p \in Procs : ppc[p] = "running") /\ portFile # 0)
        => \E p \in Procs : Owner(p) /\ listening[p] = portFile

(***************************************************************************)
(* Claims about the command server and the RPCManager, checked under       *)
(* SpecApp.                                                                *)
(***************************************************************************)
\* The server is about to close the connection it accepted.
Closing == tpc["fg"] = "close"

\* C2: when the server closes a connection it accepted, it has written
\* exactly one response to it, whatever the payload was.
C2_OneResponsePerConnection ==
    Closing => Len(conn.responses) = 1

\* C5: a command whose action is none of connect, disconnect, quit,
\* list_profiles, load_profile (or that has no action) is answered with
\* success = false.
C5_UnknownActionRejected ==
    (Closing /\ conn.payload.kind = "command"
             /\ conn.payload.action \notin KnownActions)
      => /\ Len(conn.responses) = 1
         /\ ~conn.responses[1].success

\* C6: a connection whose payload could not be decoded is answered with a
\* response whose success is false before it is closed.
C6_DecodeFailureAnswered ==
    (Closing /\ conn.payload.kind = "garbage")
      => \E i \in 1..Len(conn.responses) : ~conn.responses[i].success

\* C3: at the end of a tick of the liveness loop whose probe failed, with no
\* handler running in the main thread, the RPCManager is connected through a
\* live client with the remembered payload published, or disconnected, or has
\* no remembered payload.
C3_ProbeFailureRecovered ==
    (tpc["bg"] = "loop_wait" /\ ret["bg"] = 0 /\ tpc["fg"] = "idle")
      => \/ status = "connected" /\ client = "live"
                                 /\ published = current_activity
         \/ status = "disconnected"
         \/ current_activity = -1

\* The step in which a call of disconnect() returns.
DisconnectReturns ==
    /\ tpc["fg"] = "disconnect_event"
    /\ tpc'["fg"] # "disconnect_event"

\* C4: whenever disconnect() returns, the status is Disconnected and there is
\* no last-known payload.
C4_DisconnectResets ==
    [][DisconnectReturns =>
          status' = "disconnected" /\ current_activity' = -1]_vars

(***************************************************************************)
(* Claims about release_lock by a process that does not hold the lock,     *)
(* checked under SpecRelease.                                              *)
(***************************************************************************)
\* The step in which release_lock is called by process p, which does not hold
\* the lock, while some other process owns it.
ReleasesWithoutLock(p) ==
    /\ ppc[p] = "not_owner"
    /\ ppc'[p] = "not_owner"
    /\ lock_fd[p] > 0
    /\ lock_fd'[p] = -1
    /\ \E o \in Procs \ {p} : Owner(o)

\* C11: release_lock by a process that does not hold the lock changes
\* nothing: the lock file stays in place and the owner keeps the lock.
C11_ReleaseNotHeldIsNoOp ==
    [][\A p \in Procs :
          ReleasesWithoutLock(p) =>
              /\ lockPath' = lockPath
              /\ flockHolder' = flockHolder]_vars

(***************************************************************************)
(* Claims about concurrent acquire_lock calls, checked under SpecAcquire.  *)
(***************************************************************************)
\* Process p is inside acquire_lock, or acquire_lock has returned True to it.
\* (AcquireWrite cannot fail, so "acq_write" already has the lock.)
HasLock(p) == ppc[p] = "acq_write" \/ Owner(p)

\* C12: of the processes calling acquire_lock on one lock path while nobody
\* releases, never two have the call return True, and the call returns False
\* to one only when another live process has the lock: of two concurrent
\* calls exactly one returns True.
C12_ExactlyOneAcquires ==
    /\ [](Cardinality({p \in Procs : HasLock(p)}) <= 1)
    /\ [][\A q \in Procs :
             AcquireReturnsFalse(q) =>
                 \E r \in Procs \ {q} : HasLock(r) /\ HoldsLock(r)]_vars

\* C12 witness: the two calls overlapped (process 2 had its flock refused
\* while process 1 was between its flock and its write), process 1 got True
\* and process 2 got False.
C12_Witness ==
    /\ ppc[1] = "start_server"
    /\ ppc[2] = "not_owner"
    /\ lock_fd[1] = lock_fd[2]
    /\ inodeContent[lockPath] = 1

\* Process q is inside acquire_lock, past the open of the file.
InAcquire(q) == ppc[q] \in {"acq_flock", "acq_write"}

\* C13 (under SpecAcquireFair): a call of acquire_lock always returns, whoever
\* holds the lock and however long: a process inside the call gets out of it.
C13_AcquireReturns ==
    \A q \in Procs : InAcquire(q) ~> ~InAcquire(q)

\* C13 witness: acquire_lock has returned False to process 2 while process 1,
\* the owner, is up and running and still holds the lock.
C13_Witness ==
    /\ ppc[1] = "running"
    /\ ppc[2] = "not_owner"
    /\ flockHolder[lockPath] = 1

(***************************************************************************)
(* Claims about the waits of the command path, checked under SpecApp.      *)
(***************************************************************************)
\* The steps accept_connection takes once recv has returned.
AfterRecv ==
    \/ SkipResponse
    \/ HandleNotADict
    \/ ProcessSimple
    \/ ProcessDisconnect
    \/ ProcessConnectProfile
    \/ ProcessConnectForm

\* C14: accept_connection never waits for the client: whenever the main
\* thread is in conn.recv, it can go on by itself, whatever the client does.
C14_AcceptNeverWaits ==
    tpc["fg"] = "recv" => ENABLED AfterRecv

(***************************************************************************)
(* Claims about send_command, checked under SpecRun.                       *)
(***************************************************************************)
\* The value is a Response: a dict whose success is a boolean.
IsResponse(v) == v.type = "dict" /\ v.success \in {"True", "False"}

\* C15: whatever the outcome of the exchange, the value send_command returned
\* is a Response, and it carries an error description when its success is
\* false.
C15_AlwaysAResponse ==
    \A p \in Procs :
        response[p] # NoResponse =>
            /\ IsResponse(response[p])
            /\ response[p].success = "False" => response[p].error # "absent"

(***************************************************************************)
(* Claims about the responses a client obtains, checked under SpecApp.     *)
(***************************************************************************)
\* The exchanges in which send_command makes the response itself.
TransportErrors ==
    {Reply(k, JsonScalar) : k \in {"refused", "timeout", "closed", "bad_utf8",
                                   "not_json"}}

\* A failure carries an error text that is not empty.
FailureHasError(v) == v.success = "False" => v.error \notin {"absent", ""}

\* C16: when the server closes the connection of a command (a dict), it has
\* written exactly one response and the client decodes it into a Response;
\* and every failure Response, from the handler (whatever the payload) or
\* made by the client on a transport error, has a non-empty error text.
C16_OneResponseWithError ==
    /\ (Closing /\ conn.payload.kind = "command") =>
          /\ Len(conn.responses) = 1
          /\ IsResponse(SendCommand(WireReply(conn)))
    /\ Closing => FailureHasError(SendCommand(WireReply(conn)))
    /\ \A reply \in TransportErrors :
          /\ IsResponse(SendCommand(reply))
          /\ SendCommand(reply).success = "False"
          /\ FailureHasError(SendCommand(reply))

\* C16 witness: the server is about to close a connection on which it
\* answered with a failure, which the client decodes into a failure Response.
C16_Witness ==
    /\ Closing
    /\ Len(conn.responses) = 1
    /\ SendCommand(WireReply(conn)).success = "False"

(***************************************************************************)
(* Claims about the frame of update_activity and connect, checked under    *)
(* SpecApp.                                                                *)
(***************************************************************************)
\* The step in which thread t enters update_activity while the status is not
\* Connected (and not the exit of the process, which ends the daemon thread
\* wherever it is).
PublishWhenNotConnected(t) ==
    /\ tpc[t] = "update_guard"
    /\ tpc'[t] \notin {"update_guard", "ended"}
    /\ status # "connected"

\* The step in which the external update of thread t's update_activity fails.
PublishFails(t) ==
    /\ tpc[t] = "update_send"
    /\ tpc'[t] \notin {"update_send", "update_store", "ended"}

\* C17: update_activity entered with a status other than Connected returns
\* False in that step, without a call of the external service and with the
\* status and the last-known payload as they were; and when the external
\* update fails, update_activity returns False with the last-known payload as
\* it was.
C17_PublishRejectedIsNoOp ==
    [][\A t \in Threads :
         /\ PublishWhenNotConnected(t) =>
               /\ ret'[t] = 0
               /\ tpc'[t] = Head(stack[t]).pc
               /\ published' = published
               /\ status' = status
               /\ current_activity' = current_activity
         /\ PublishFails(t) =>
               /\ ret'[t] = 0
               /\ published' = published
               /\ current_activity' = current_activity]_vars

\* C17 witness: the liveness loop's update_activity has returned False and
\* the status is not Connected, with a payload still remembered.
C17_Witness ==
    /\ tpc["bg"] = "loop_wait"
    /\ ret["bg"] = 0
    /\ status # "connected"
    /\ client # "none"

\* The step in which connect(client_id) is entered while the status is
\* Connected with that same client_id.
ConnectWhenConnected ==
    /\ tpc["fg"] = "connect_guard"
    /\ tpc'["fg"] # "connect_guard"
    /\ status = "connected"
    /\ client_id = arg["fg"]

\* C18: connect entered while Connected with the same client_id returns True
\* in that step: it does not go on to the teardown or the handshake, and the
\* status, the client, the client_id, the last-known payload, what is
\* published and the liveness loop's flag, thread and event are unchanged.
C18_ConnectSameIdIsNoOp ==
    [][ConnectWhenConnected =>
          /\ ret'["fg"] = 1
          /\ tpc'["fg"] = Head(stack["fg"]).pc
          /\ rpcVars' = rpcVars
          /\ tpc'["bg"] = tpc["bg"]]_vars

\* C18 witness: a connect has returned True at once to the handler of a
\* connect command, with the payload of an earlier connect still remembered
\* and the client live.
C18_Witness ==
    /\ tpc["fg"] = "ipc_profile_connected"
    /\ ret["fg"] = 1
    /\ status = "connected"
    /\ client = "live"
    /\ current_activity # -1

(***************************************************************************)
(* Claims about the flags and the commands forwarded, checked under        *)
(* SpecRun.                                                                *)
(***************************************************************************)
\* Process p found the lock taken, and the owner's command server listens on
\* the port in the port file.
CanForward(p) ==
    /\ ppc[p] = "not_owner"
    /\ GetPort # 0
    /\ \E o \in Procs \ {p} : Owner(o) /\ listening[o] = GetPort

\* The flags `args` make run() hand exactly the command `cmd` to send_command.
Forwards(args, cmd) ==
    \E reply \in SendOutcomes(GetPort) :
        RunNotAcquired(args, GetPort, reply).sent = <<cmd>>

\* C19: when another instance holds the lock and can be reached, each of the
\* five actions has a flag combination that forwards a command with that
\* action, and for connect and load_profile with the profile name given.
C19_EveryActionForwardable ==
    \A p \in Procs : CanForward(p) =>
        /\ \A a \in {"disconnect", "quit", "list_profiles"} :
              \E args \in Args : Forwards(args, Command(a, NoName))
        /\ \A a \in {"connect", "load_profile"} : \A n \in Names :
              \E args \in Args : args.profile = n /\ Forwards(args, Command(a, n))

(***************************************************************************)
(* Claims about the output of the commands, checked under SpecApp.         *)
(***************************************************************************)
\* The names of `profiles` from the i-th on, one per line and nothing else.
RECURSIVE OnePerLine(_, _)
OnePerLine(profiles, i) ==
    IF i > Len(profiles) THEN ""
    ELSE profiles[i] \o "\n" \o OnePerLine(profiles, i + 1)

\* C20: the response to a list_profiles command has success true and as
\* output the stored profile names in lexicographic order, one per line with
\* nothing else.
C20_ListProfilesOutput ==
    (Closing /\ conn.payload.kind = "command"
             /\ conn.payload.action = "list_profiles") =>
        /\ Len(conn.responses) = 1
        /\ conn.responses[1].success
        /\ conn.responses[1].output = OnePerLine(ListProfiles, 1)

(***************************************************************************)
(* Claims about the clean shutdown of the owner, checked under SpecLock.   *)
(***************************************************************************)
\* The step in which _quit_application of process p ends.
QuitReturns(p) == ppc[p] = "cleanup_port" /\ ppc'[p] = "done_owner"

\* Nothing of process p is left: no listener, no advisory lock, no open lock
\* file, and the lock path names no file with its PID.
NothingLeftOf(p) ==
    /\ listening[p] = 0
    /\ ~HoldsLock(p)
    /\ lock_fd[p] <= 0
    /\ GetPid # p

\* C21: once an owner has shut down through _quit_application, its listener
\* is closed, it holds no lock and the lock file it wrote is gone; and when
\* _quit_application ends, there is no port file.
C21_CleanShutdownLeavesNothing ==
    /\ [](\A p \in Procs : ppc[p] = "done_owner" => NothingLeftOf(p))
    /\ [][\A p \in Procs : QuitReturns(p) => portFile' = 0]_vars

\* C21 witness: process 1 has been the owner, with its PID in the lock file
\* and its port in the port file, and has shut down cleanly while process 2
\* was waiting to flock.
C21_Witness ==
    /\ ppc[1] = "done_owner"
    /\ ppc[2] = "acq_flock"
    /\ lockPath = 0
    /\ portFile = 0

(***************************************************************************)
(* Claims about the order in which the server takes commands, checked      *)
(* under SpecApp.                                                          *)
(***************************************************************************)
\* The step in which accept_connection accepts a connection.
AcceptsConnection == tpc["fg"] # "recv" /\ tpc'["fg"] = "recv"

\* The main thread has received a payload on the connection it serves.
Serving == conn # NoConn /\ conn.payload # Silent

\* C22: a connection is accepted only when the main thread is in no handler
\* and the previous connection has been answered and closed; and the
\* connection whose payload is being handled stays the one served until it is
\* closed, however many clients are waiting in the listen queue.
C22_OneCommandAtATime ==
    [][/\ AcceptsConnection =>
             tpc["fg"] = "idle" /\ stack["fg"] = <<>> /\ conn = NoConn
       /\ (Serving /\ conn' # NoConn) => conn'.payload = conn.payload]_vars

\* C22 witness: a connect command is being handled (its connect has
\* returned, its response is not written yet) while other clients wait in the
\* listen queue.
C22_Witness ==
    /\ tpc["fg"] = "ipc_profile_connected"
    /\ conn.payload.action = "connect"
    /\ conn.responses = <<>>
    /\ pending = MaxPending

(***************************************************************************)
(* Claims about the liveness loop running beside the main thread, checked  *)
(* under SpecApp.                                                          *)
(***************************************************************************)
\* The state disconnect() leaves behind, with the main thread back in the
\* event loop: no connect has been called since.
Disconnected ==
    /\ tpc["fg"] = "idle"
    /\ status = "disconnected"
    /\ client = "none"
    /\ current_activity = -1
    /\ ~should_reconnect

\* C23: after disconnect() has returned, and as long as the main thread
\* calls nothing, no step (of the liveness loop) changes the status, makes a
\* client or restores the last-known payload.
C23_DisconnectStays ==
    [][(Disconnected /\ tpc'["fg"] = "idle") =>
          /\ status' = "disconnected"
          /\ client' = "none"
          /\ current_activity' = -1]_vars

\* C24: whenever the status is Connected and the main thread is back in the
\* event loop (every connect has returned), a liveness loop thread is alive.
C24_ConnectedHasLoop ==
    (status = "connected" /\ tpc["fg"] = "idle") => BgAlive

\* No call of the RPCManager is in progress in either thread.
Quiet ==
    /\ tpc["fg"] = "idle"
    /\ tpc["bg"] \notin {"update_guard", "update_send", "update_store"}

\* C25: whenever no call is in progress, the last-known payload is the
\* payload published last through the live client (none if none was), and
\* there is no last-known payload when there is no client (after a
\* disconnect).
C25_LastKnownIsLastPublished ==
    Quiet =>
        /\ (status = "connected" /\ client = "live") =>
               current_activity = published
        /\ client = "none" => current_activity = -1

(***************************************************************************)
(* Claims about the end of the liveness loop, checked under SpecGuiFair.   *)
(***************************************************************************)
\* disconnect() has returned to the event loop, no connect has been called
\* since, and the loop thread is still alive.
LoopToStop == ~should_reconnect /\ BgAlive /\ tpc["fg"] = "idle"

\* C26: once disconnect() has returned with the loop thread alive and as
\* long as no connect follows, the loop's wait ends through the event (the
\* thread ends, it does not go round after a timeout), the loop starts no
\* probe, and the thread eventually ends.
C26_LoopStopsPromptly ==
    /\ [][(LoopToStop /\ tpc'["fg"] = "idle") =>
             /\ (tpc["bg"] = "loop_wait" /\ tpc'["bg"] # "loop_wait")
                    => tpc'["bg"] = "ended"
             /\ tpc["bg"] = "loop_check" => tpc'["bg"] # "loop_probe"]_vars
    /\ LoopToStop ~> (~BgAlive \/ should_reconnect)

\* C26 witness: after a disconnect the loop thread has left its wait through
\* the event and ended, with the manager Disconnected.
C26_Witness ==
    /\ tpc["bg"] = "ended"
    /\ tpc["fg"] = "idle"
    /\ reconnect_thread = "none"
    /\ reconnect_event
    /\ ~should_reconnect
    /\ status = "disconnected"

(***************************************************************************)
(* Claims about what the client reads of the response, checked under       *)
(* SpecApp.                                                                *)
(***************************************************************************)
\* Lengths in bytes the serialized response can have (its output grows with
\* the number of stored profiles), around the size of the client's buffer.
SerializedLens == {BufSize - 1, BufSize, BufSize + 1}

\* Sizes of the first segment in which the transport can deliver a text of
\* `len` bytes: all of it, or a part.
FirstSegments(len) == {len} \cup {n \in {1, BufSize} : n < len}

\* C27: for every response the handler produced and the server wrote,
\* whatever its length and however the transport splits it, send_command
\* returns that response.
C27_WholeResponseRead ==
    (Closing /\ conn.responses # <<>>) =>
        \A len \in SerializedLens : \A first \in FirstSegments(len) :
            SendCommand(Recv(JsonDumps(conn.responses[1]), len, first))
                = JsonLoads(JsonDumps(conn.responses[1]))

(***************************************************************************)
(* Claims about the quit command, checked under SpecApp.                   *)
(***************************************************************************)
\* The server is about to close the connection of a quit command.
QuitAnswered ==
    /\ Closing
    /\ conn.payload.kind = "command"
    /\ conn.payload.action = "quit"

\* The step in which the owner closes its command listener.
StopsListening == listening[Me] # 0 /\ listening'[Me] = 0

\* C28: when the connection of a quit command is closed, the response has
\* been written to it, the shutdown is scheduled, and the listener, the lock
\* and the port file are still there; and the listener is closed only from
\* the event loop, with no connection open.
C28_QuitAnswersFirst ==
    /\ [](QuitAnswered =>
            /\ Len(conn.responses) = 1
            /\ quitTimer
            /\ listening[Me] # 0
            /\ Owner(Me) /\ HoldsLock(Me)
            /\ portFile # 0)
    /\ [][StopsListening => tpc["fg"] = "idle" /\ conn = NoConn]_vars

\* C28 witness: the response to a quit command has been written, the timer
\* is pending and the owner still listens.
C28_Witness ==
    /\ QuitAnswered
    /\ conn.responses # <<>>
    /\ conn.responses[1].output = "quitting"
    /\ quitTimer
    /\ listening[Me] # 0

(***************************************************************************)
(* Claims about the start of the owner, checked under SpecStart.           *)
(***************************************************************************)
\* C29: a process that is in its run loop holds the lock, its command server
\* listens and the lock file and the port file exist.
C29_RunLoopHoldsLock ==
    \A p \in Procs : ppc[p] = "running" =>
        /\ HoldsLock(p)
        /\ lock_fd[p] > 0
        /\ listening[p] # 0
        /\ lockPath # 0
        /\ portFile # 0

(***************************************************************************)
(* Claims about the output of the connect command, checked under SpecApp.  *)
(***************************************************************************)
\* The outputs that say the agent connected: "Connected to Discord RPC with
\* profile: ..." and "Connected to Discord RPC".
SaysConnected == {"connected_with_profile", "connected"}

\* C30: when the handler of a connect command has returned and its response
\* says that the agent connected, the status is Connected.
C30_ConnectedOnlyIfConnected ==
    (/\ Closing
     /\ conn.payload.kind = "command"
     /\ conn.payload.action = "connect"
     /\ conn.responses # <<>>
     /\ conn.responses[1].output \in SaysConnected)
        => status = "connected"

====
